---- MODULE Spec2Model ----
(***************************************************************************)
(* image-utoolity: the pipeline of ImageProcessor (process,                *)
(* processSingleFile, processDirectory), the path resolution of            *)
(* FileManager and the command handlers of index.js, over an abstract      *)
(* filesystem.  The codec (sharp) is an external collaborator: each call   *)
(* either succeeds and writes its target, or fails, leaving its target     *)
(* untouched or partially written.                                         *)
(***************************************************************************)
EXTENDS Integers, Sequences, FiniteSets, TLC

VARIABLES fs, pc, caller, inputPath, outputPath, operations, originalSize,
          currentPath, tempFiles, fsBefore, fsStart, calls, finished, outcome,
          inputDir, outputDir, images, idx, report, summary, cli, probes, batch

vars == <<fs, pc, caller, inputPath, outputPath, operations, originalSize,
          currentPath, tempFiles, fsBefore, fsStart, calls, finished, outcome,
          inputDir, outputDir, images, idx, report, summary, cli, probes, batch>>

psfVars == <<inputPath, outputPath, operations, originalSize, currentPath,
             tempFiles, fsBefore>>

dirVars == <<inputDir, outputDir, images, idx, report, summary, fsStart>>

----------------------------------------------------------------------------
(* Bounds of the model *)

\* number of codec output sizes a stage may produce (sizes 2, 4, ...)
MaxOutSizes == 1

\* largest number of stages an operations object lists
MaxStages == 3

\* number of entries of the input directory (the first ones of Listing)
MaxEntries == 3

----------------------------------------------------------------------------
(* Paths: a path is [dir, name, ext]; ext is the text after the last dot of *)
(* the last segment ("" when there is none), as path.extname sees it.       *)

Path(d, n, e) == [dir |-> d, name |-> n, ext |-> e]

PathStr(p) == p.dir \o "/" \o p.name \o (IF p.ext = "" THEN "" ELSE "." \o p.ext)

extname(p) == IF p.ext = "" THEN "" ELSE "." \o p.ext

\* String.prototype.toLowerCase on the extensions the model uses
toLowerCase(s) ==
  CASE s = ".JPG" -> ".jpg"
    [] s = ".PNG" -> ".png"
    [] s = "JPG" -> "jpg"
    [] s = "PNG" -> "png"
    [] OTHER -> s

\* path.join(directory, file)
join(d, file) == Path(PathStr(d), file.name, file.ext)

----------------------------------------------------------------------------
(* Filesystem: a function from the paths that exist to their entries *)

NoPath == Path("", "", "")

File(sz, d) == [kind |-> "file", size |-> sz, data |-> d]

Dir == [kind |-> "dir", size |-> 4096, data |-> "dir"]

\* a symbolic link to nothing: readdir lists it, stat throws on it, it does not exist
Link == [kind |-> "link", size |-> 0, data |-> ""]

existsSync(f, p) == p \in DOMAIN f /\ f[p].kind # "link"

WriteFile(f, p, e) == [q \in (DOMAIN f) \cup {p} |-> IF q = p THEN e ELSE f[q]]

Unlink(f, p) == [q \in (DOMAIN f) \ {p} |-> f[q]]

\* FileManager.isDirectory
isDirectory(f, p) == existsSync(f, p) /\ f[p].kind = "dir"

----------------------------------------------------------------------------
(* ImageValidator *)

SUPPORTED_FORMATS == {".jpg", ".jpeg", ".png", ".webp", ".avif", ".tiff", ".gif", ".svg", ".bmp"}

MAX_FILE_SIZE == 100 * 1024 * 1024

\* validate, had it refused a file of exactly the largest size
validateBelowMaxSize(f, filePath) ==
  IF ~existsSync(f, filePath)
    THEN [isValid |-> FALSE, error |-> "Archivo no encontrado"]
  ELSE IF f[filePath].size = 0
    THEN [isValid |-> FALSE, error |-> "El archivo esta vacio"]
  ELSE IF f[filePath].size >= 100 * 1024 * 1024
    THEN [isValid |-> FALSE, error |-> "Archivo demasiado grande"]
  ELSE IF toLowerCase(extname(filePath)) \notin SUPPORTED_FORMATS
    THEN [isValid |-> FALSE, error |-> "Formato no soportado"]
  ELSE [isValid |-> TRUE, error |-> "null"]

\* validate, without the check of an empty file
validateAcceptsEmpty(f, filePath) ==
  IF ~existsSync(f, filePath)
    THEN [isValid |-> FALSE, error |-> "Archivo no encontrado"]
  ELSE IF f[filePath].size > 100 * 1024 * 1024
    THEN [isValid |-> FALSE, error |-> "Archivo demasiado grande"]
  ELSE IF toLowerCase(extname(filePath)) \notin SUPPORTED_FORMATS
    THEN [isValid |-> FALSE, error |-> "Formato no soportado"]
  ELSE [isValid |-> TRUE, error |-> "null"]

validate(f, filePath) ==
  IF ~existsSync(f, filePath)
    THEN [isValid |-> FALSE, error |-> "Archivo no encontrado"]
  ELSE IF f[filePath].size = 0
    THEN [isValid |-> FALSE, error |-> "El archivo esta vacio"]
  ELSE IF f[filePath].size > MAX_FILE_SIZE
    THEN [isValid |-> FALSE, error |-> "Archivo demasiado grande"]
  ELSE IF toLowerCase(extname(filePath)) \notin SUPPORTED_FORMATS
    THEN [isValid |-> FALSE, error |-> "Formato no soportado"]
  ELSE [isValid |-> TRUE, error |-> "null"]

\* validateDimensions, had it refused the limit of 10000 itself
validateDimensionsBelowLimit(width, height) ==
  IF width <= 0 \/ height <= 0
    THEN [isValid |-> FALSE, error |-> "Dimensiones deben ser mayores a 0"]
  ELSE IF width >= 10000 \/ height >= 10000
    THEN [isValid |-> FALSE, error |-> "Dimensiones no pueden exceder 10000px"]
  ELSE [isValid |-> TRUE, error |-> "null"]

validateDimensions(width, height) ==
  IF width <= 0 \/ height <= 0
    THEN [isValid |-> FALSE, error |-> "Dimensiones deben ser mayores a 0"]
  ELSE IF width > 10000 \/ height > 10000
    THEN [isValid |-> FALSE, error |-> "Dimensiones no pueden exceder 10000px"]
  ELSE [isValid |-> TRUE, error |-> "null"]

\* a JavaScript number that need not be whole: floor is its integer part, frac tells
\* whether a fractional part follows it (50.5 is Number(50, TRUE))
Number(n, frac) == [floor |-> n, frac |-> frac]

Whole(n) == Number(n, FALSE)

\* x < n, for a whole n
Less(x, n) == x.floor < n

\* x > n, for a whole n
Greater(x, n) == x.floor > n \/ (x.floor = n /\ x.frac)

validateQuality(quality) ==
  IF Less(quality, 1) \/ Greater(quality, 100)
    THEN [isValid |-> FALSE, error |-> "Calidad debe estar entre 1 y 100"]
  ELSE [isValid |-> TRUE, error |-> "null"]

----------------------------------------------------------------------------
(* Operations objects: the stages in key insertion order, each with its     *)
(* parameters.  operations.convert is the entry whose stage is "convert".   *)

Stage(s, fmt, w, h, q) == [stage |-> s, format |-> fmt, width |-> w, height |-> h, quality |-> q]

Has(ops, s) == \E k \in 1..Len(ops) : ops[k].stage = s

Get(ops, s) == ops[CHOOSE k \in 1..Len(ops) : ops[k].stage = s]

StageNames == {"convert", "resize", "compress"}

\* the operations objects of a given list of distinct stage names
RECURSIVE OpsOver(_, _, _, _)
OpsOver(names, fmts, dims, quals) ==
  IF names = <<>> THEN {<<>>}
  ELSE LET rest == OpsOver(Tail(names), fmts, dims, quals)
           heads == CASE Head(names) = "convert" -> {Stage("convert", f, 0, 0, 0) : f \in fmts}
                      [] Head(names) = "resize" -> {Stage("resize", "", d[1], d[2], 0) : d \in dims}
                      [] OTHER -> {Stage("compress", "webp", 0, 0, q) : q \in quals}
       IN {<<hd>> \o r : hd \in heads, r \in rest}

DistinctSeqs(S, n) ==
  UNION {{sq \in [1..k -> S] : \A a, b \in 1..k : a # b => sq[a] # sq[b]} : k \in 0..n}

AllOps(fmts, dims, quals) ==
  UNION {OpsOver(names, fmts, dims, quals) : names \in DistinctSeqs(StageNames, MaxStages)}

----------------------------------------------------------------------------
(* The temporary files of a pipeline *)

\* TempPath, had the stages written to outputPath itself
TempPathDirect(out, tag) == out

\* TempPath, had a stage that no other stage follows written to outputPath
TempPathUnlessLast(out, tag) ==
  IF tag = "resized"
    THEN IF Has(operations, "compress") THEN Path(out.dir, out.name \o extname(out) \o ".temp", tag)
         ELSE out
    ELSE IF Has(operations, "resize") \/ Has(operations, "compress")
           THEN Path(out.dir, out.name \o extname(out) \o ".temp", tag)
           ELSE out

\* `${outputPath}.temp.${tag}`
TempPath(out, tag) == Path(out.dir, out.name \o extname(out) \o ".temp", tag)

----------------------------------------------------------------------------
(* The codec (sharp) and the stream copy, as the pipeline sees them *)

NoEntry == [kind |-> "absent", size |-> 0, data |-> ""]

Lookup(f, p) == IF existsSync(f, p) THEN f[p] ELSE NoEntry

OutSizes == {2 * k : k \in 1..MaxOutSizes}

ParentExists(f, p) ==
  p.dir = "" \/ \E d \in DOMAIN f : PathStr(d) = p.dir /\ f[d].kind = "dir"

\* the target can be opened for writing
CanWrite(f, target) == ParentExists(f, target) /\ ~isDirectory(f, target)

\* the source can be opened for reading
CanRead(f, src) == existsSync(f, src) /\ f[src].kind = "file"

\* sharp(...).toFile(target): the filesystems a call of a stage can leave, by result.
\* A failed call leaves the target untouched or partially written.
CodecResults(f, src, target, tag) ==
  IF CanRead(f, src) /\ CanWrite(f, target)
    THEN {[ok |-> TRUE, fs |-> WriteFile(f, target, File(sz, tag))] : sz \in OutSizes}
         \cup {[ok |-> FALSE, fs |-> f], [ok |-> FALSE, fs |-> WriteFile(f, target, File(0, "partial"))]}
    ELSE {[ok |-> FALSE, fs |-> f]}

\* pipeline(createReadStream(src), createWriteStream(target)): createWriteStream
\* opens (creates or truncates) the target whether or not the source can be read.
CopyResults(f, src, target) ==
  IF CanWrite(f, target)
    THEN IF CanRead(f, src)
           THEN {[ok |-> TRUE, fs |-> WriteFile(f, target, File(f[src].size, f[src].data))],
                 [ok |-> FALSE, fs |-> WriteFile(f, target, File(0, "partial"))]}
           ELSE {[ok |-> FALSE, fs |-> WriteFile(f, target, File(0, "partial"))]}
    ELSE {[ok |-> FALSE, fs |-> f]}

\* a call of the codec or of the copy, as logged: n numbers the pipeline run it belongs to
Call(s, src, target, st) ==
  [stage |-> s, src |-> src, target |-> target, width |-> st.width, height |-> st.height,
   quality |-> st.quality, by |-> caller, out |-> outputPath, n |-> Len(finished) + 1]

NoParams == Stage("", "", 0, 0, 0)

----------------------------------------------------------------------------
(* JavaScript values *)

\* the value undefined, where a number is expected
Undefined == -1

\* obj[key], undefined when the object has no such key
Field(obj, key) == IF key \in DOMAIN obj THEN obj[key] ELSE Undefined

\* x || y on numbers
Or(x, y) == IF x = Undefined \/ x = 0 THEN y ELSE x

\* template-literal text of a number
NumStr(n) ==
  CASE n = Undefined -> "undefined"
    [] n = 0 -> "0"
    [] n = 600 -> "600"
    [] n = 800 -> "800"
    [] n = 10001 -> "10001"
    [] OTHER -> "N"

\* toFixed1, had it cut the digits after the first decimal instead of rounding
toFixed1Truncated(a, b) ==
  LET m == IF a >= b THEN a - b ELSE b - a
      t == (m \div a) * 1000 + (((m % a) * 10) \div a) * 100
           + (((((m % a) * 10) % a) * 10) \div a) * 10
           + ((((((m % a) * 10) % a) * 10) % a) * 10) \div a
  IN IF a >= b THEN t ELSE -t

\* ((a - b) / a * 100).toFixed(1), in tenths of a percent, for a > 0: the nearest
\* tenth, a tie going away from zero.  The quotient is taken digit by digit, so that
\* no intermediate value exceeds ten times a.
toFixed1(a, b) ==
  LET m == IF a >= b THEN a - b ELSE b - a
      d0 == m \div a
      r0 == m % a
      d1 == (r0 * 10) \div a
      r1 == (r0 * 10) % a
      d2 == (r1 * 10) \div a
      r2 == (r1 * 10) % a
      d3 == (r2 * 10) \div a
      r3 == (r2 * 10) % a
      t == d0 * 1000 + d1 * 100 + d2 * 10 + d3
      r == IF 2 * r3 >= a THEN t + 1 ELSE t
  IN IF a >= b THEN r ELSE -r

----------------------------------------------------------------------------
(* Names a module can use: its imports *)

\* src/core/ImageProcessor.js
ImageProcessorImports ==
  {"ImageConverter", "ImageResizer", "ImageCompressor", "ImageValidator", "Logger",
   "FileManager", "PathUtils", "statSync", "existsSync"}

\* src/utils/Logger.js
LoggerImports == {"chalk"}

\* Logger.stats(originalSize, optimizedSize, format): the error it throws, "" when none
LoggerStats(format) ==
  IF format = "" /\ "PathUtils" \notin LoggerImports THEN "PathUtils is not defined" ELSE ""

----------------------------------------------------------------------------
(* FileManager *)

\* the directory entries readdir lists, in listing order
Listing ==
  <<Path("/in", "a", "jpg"), Path("/in", "a", "png"), Path("/in", "n", "txt"),
    Path("/in", "sub", ""), Path("/in", "b", "webp"), Path("/in/sub", "c", "jpg")>>

\* readdir(directoryPath): the entries directly inside the directory
readdir(f, directoryPath) ==
  SelectSeq(Listing, LAMBDA p : p \in DOMAIN f /\ p.dir = PathStr(directoryPath))

\* stat(filePath) throws
StatFails(f, filePath) == f[filePath].kind = "link"

\* getImagesFromDirectory, had the stat of an entry been made outside the inner try
getImagesAbortsOnStat(f, directoryPath) ==
  IF ~existsSync(f, directoryPath)
    THEN [ok |-> FALSE, error |-> "Directorio no encontrado", images |-> <<>>]
  ELSE IF f[directoryPath].kind # "dir"
    THEN [ok |-> FALSE, error |-> "La ruta no es un directorio", images |-> <<>>]
  ELSE IF \E k \in 1..Len(readdir(f, directoryPath)) : StatFails(f, readdir(f, directoryPath)[k])
    THEN [ok |-> FALSE, error |-> "ENOENT", images |-> <<>>]
  ELSE LET In(p) == f[p].kind = "file" /\ validate(f, p).isValid
           files == SelectSeq(readdir(f, directoryPath), In)
       IN [ok |-> TRUE, error |-> "",
           images |-> [k \in 1..Len(files) |->
                         [path |-> files[k], name |-> files[k].name \o extname(files[k]),
                          size |-> f[files[k]].size]]]

\* FileManager.getImagesFromDirectory
getImagesFromDirectory(f, directoryPath) ==
  IF ~existsSync(f, directoryPath)
    THEN [ok |-> FALSE, error |-> "Directorio no encontrado", images |-> <<>>]
  ELSE IF f[directoryPath].kind # "dir"
    THEN [ok |-> FALSE, error |-> "La ruta no es un directorio", images |-> <<>>]
  ELSE LET In(p) == ~StatFails(f, p) /\ f[p].kind = "file" /\ validate(f, p).isValid
           files == SelectSeq(readdir(f, directoryPath), In)
       IN [ok |-> TRUE, error |-> "",
           images |-> [k \in 1..Len(files) |->
                         [path |-> files[k], name |-> files[k].name \o extname(files[k]),
                          size |-> f[files[k]].size]]]

\* FileManager.ensureDirectoryExists
ensureDirectoryExists(f, directoryPath) ==
  IF ~existsSync(f, directoryPath) THEN WriteFile(f, directoryPath, Dir) ELSE f

\* FileManager.getOperationSuffix
getOperationSuffix(operation, options) ==
  CASE operation = "convert" -> "_converted"
    [] operation = "resize" -> "_" \o NumStr(options.width) \o "x" \o NumStr(options.height)
    [] operation = "compress" -> "_compressed"
    [] operation = "optimize" -> "_optimized"
    [] OTHER -> "_processed"

\* addSuffixToFilename, had it kept the extension of the file whatever the new format
addSuffixKeepsExtension(filename, suffix, newFormat) ==
  [name |-> filename.name \o suffix, ext |-> toLowerCase(filename.ext)]

\* FileManager.addSuffixToFilename; newFormat = "" stands for null or undefined
addSuffixToFilename(filename, suffix, newFormat) ==
  IF newFormat # ""
    THEN [name |-> filename.name \o suffix, ext |-> newFormat]
    ELSE [name |-> filename.name \o suffix, ext |-> toLowerCase(filename.ext)]

\* an options argument of generateOutputPath: the keys it reads
Options(w, h, fmt) == [width |-> w, height |-> h, format |-> fmt]

\* the keys of an operations object seen as options: it has none of them
OptionsOf(ops) == Options(Undefined, Undefined, "")

\* generateOutputPath, had it inferred the kind of outputPath from its extension
\* whether or not the path exists
generateOutputPathInfersAlways(f, inp, out, operation, options) ==
  [ok |-> FALSE, error |-> "Assignment to constant variable.", path |-> NoPath, fs |-> f]

\* FileManager.generateOutputPath: outputIsDir is declared const, so the
\* assignment made when outputPath does not exist throws a TypeError.
generateOutputPath(f, inp, out, operation, options) ==
  LET inputIsDir == isDirectory(f, inp)
      outputIsDir == isDirectory(f, out)
      derived == join(out, addSuffixToFilename(inp, getOperationSuffix(operation, options),
                                               options.format))
  IN IF ~existsSync(f, out)
       THEN [ok |-> FALSE, error |-> "Assignment to constant variable.", path |-> NoPath, fs |-> f]
     ELSE IF inputIsDir /\ outputIsDir
       THEN [ok |-> TRUE, error |-> "", path |-> derived, fs |-> ensureDirectoryExists(f, out)]
     ELSE IF inputIsDir /\ ~outputIsDir
       THEN [ok |-> FALSE, error |-> "Si la entrada es un directorio, la salida debe ser un directorio",
             path |-> NoPath, fs |-> f]
     ELSE IF ~inputIsDir /\ outputIsDir
       THEN [ok |-> TRUE, error |-> "", path |-> derived, fs |-> ensureDirectoryExists(f, out)]
     ELSE [ok |-> TRUE, error |-> "", path |-> out, fs |-> f]

----------------------------------------------------------------------------
(* ImageProcessor.processSingleFile *)

\* what a finished call of processSingleFile leaves behind
\* a finished run of processSingleFile, as logged: how it ended (returned, or threw at a
\* stage) and the filesystem before and after it
Finished(status, stage, err, f) ==
  [input |-> inputPath, output |-> outputPath, operations |-> operations,
   status |-> status, stage |-> stage, error |-> err,
   fsBefore |-> fsBefore, fsAfter |-> f, by |-> caller]

FailureEntry(err) == [input |-> images[idx].path, success |-> FALSE, error |-> err]

SuccessEntry(result) ==
  [input |-> images[idx].path, output |-> outputPath, success |-> TRUE, result |-> result]

\* Raise, had the catch of processDirectory rethrown instead of going on
RaiseStops(stage, err, f) ==
  /\ finished' = Append(finished, Finished("threw", stage, err, f))
  /\ pc' = "done"
  /\ outcome' = [status |-> "threw", error |-> err]
  /\ UNCHANGED <<report, idx, cli>>

\* an error leaving processSingleFile reaches the catch of its caller:
\* processDirectory records it and goes on, process() and the optimize command rethrow
Raise(stage, err, f) ==
  /\ finished' = Append(finished, Finished("threw", stage, err, f))
  /\ IF caller = "dir"
       THEN /\ report' = Append(report, FailureEntry(err))
            /\ idx' = idx + 1
            /\ pc' = "pd_loop"
            /\ UNCHANGED <<outcome, cli>>
       ELSE /\ pc' = "done"
            /\ outcome' = [status |-> "threw", error |-> err]
            /\ cli' = IF caller \in {"opt", "optfile"} THEN [cli EXCEPT !.exit = 1] ELSE cli
            /\ UNCHANGED <<report, idx>>

\* StepAfter, had the stages run in the order resize, convert
StepAfterSwapped(step) ==
  CASE step = "psf_start" -> "psf_resize"
    [] step = "psf_resize" -> "psf_convert"
    [] step = "psf_convert" -> "psf_final"
    [] OTHER -> "psf_cleanup"

\* the order of the steps of the pipeline (lines 66-119)
StepAfter(step) ==
  CASE step = "psf_start" -> "psf_convert"
    [] step = "psf_convert" -> "psf_resize"
    [] step = "psf_resize" -> "psf_final"
    [] OTHER -> "psf_cleanup"

\* lines 49-64: validation, original size, the cursor
PsfStart ==
  /\ pc = "psf_start"
  /\ LET validation == validate(fs, inputPath)
     IN IF ~validation.isValid
          THEN /\ Raise("validate", validation.error, fs)
               /\ UNCHANGED <<originalSize, currentPath, tempFiles>>
          ELSE /\ originalSize' = fs[inputPath].size
               /\ currentPath' = inputPath
               /\ tempFiles' = <<>>
               /\ pc' = StepAfter("psf_start")
               /\ UNCHANGED <<finished, outcome, report, idx, cli>>
  /\ UNCHANGED <<batch, probes, fs, caller, inputPath, outputPath, operations, fsBefore, fsStart, calls,
                 inputDir, outputDir, images, summary>>

\* TempStage, had the cursor stayed on the input after the stage
TempStageKeepsCursor(stage, tag, next) ==
  IF Has(operations, stage)
    THEN LET tempOutput == TempPath(outputPath, tag)
         IN \E r \in CodecResults(fs, currentPath, tempOutput, stage) :
              /\ fs' = r.fs
              /\ calls' = Append(calls, Call(stage, currentPath, tempOutput, Get(operations, stage)))
              /\ IF r.ok
                   THEN /\ tempFiles' = Append(tempFiles, tempOutput)
                        /\ currentPath' = currentPath
                        /\ pc' = next
                        /\ UNCHANGED <<finished, outcome, report, idx, cli>>
                   ELSE /\ Raise(stage, "codec error", r.fs)
                        /\ UNCHANGED <<tempFiles, currentPath>>
    ELSE /\ pc' = next
         /\ UNCHANGED <<fs, calls, tempFiles, currentPath, finished, outcome, report, idx, cli>>

\* a stage that writes a temporary file and advances the cursor (lines 67-100)
TempStage(stage, tag, next) ==
  IF Has(operations, stage)
    THEN LET tempOutput == TempPath(outputPath, tag)
         IN \E r \in CodecResults(fs, currentPath, tempOutput, stage) :
              /\ fs' = r.fs
              /\ calls' = Append(calls, Call(stage, currentPath, tempOutput, Get(operations, stage)))
              /\ IF r.ok
                   THEN /\ tempFiles' = Append(tempFiles, tempOutput)
                        /\ currentPath' = tempOutput
                        /\ pc' = next
                        /\ UNCHANGED <<finished, outcome, report, idx, cli>>
                   ELSE /\ Raise(stage, "codec error", r.fs)
                        /\ UNCHANGED <<tempFiles, currentPath>>
    ELSE /\ pc' = next
         /\ UNCHANGED <<fs, calls, tempFiles, currentPath, finished, outcome, report, idx, cli>>

\* lines 67-82
PsfConvert ==
  /\ pc = "psf_convert"
  /\ TempStage("convert", IF Has(operations, "convert") THEN Get(operations, "convert").format ELSE "",
               StepAfter("psf_convert"))
  /\ UNCHANGED <<batch, probes, caller, inputPath, outputPath, operations, originalSize, fsBefore, fsStart,
                 inputDir, outputDir, images, summary>>

\* lines 84-100
PsfResize ==
  /\ pc = "psf_resize"
  /\ TempStage("resize", "resized", StepAfter("psf_resize"))
  /\ UNCHANGED <<batch, probes, caller, inputPath, outputPath, operations, originalSize, fsBefore, fsStart,
                 inputDir, outputDir, images, summary>>

\* lines 102-116: compress into outputPath, or copy the cursor's file to it
PsfFinal ==
  /\ pc = "psf_final"
  /\ LET compress == Has(operations, "compress")
         stage == IF compress THEN "compress" ELSE "copy"
         results == IF compress THEN CodecResults(fs, currentPath, outputPath, "compress")
                                ELSE CopyResults(fs, currentPath, outputPath)
         params == IF compress THEN Get(operations, "compress") ELSE NoParams
     IN \E r \in results :
          /\ fs' = r.fs
          /\ calls' = Append(calls, Call(stage, currentPath, outputPath, params))
          /\ IF r.ok
               THEN /\ pc' = StepAfter("psf_final")
                    /\ UNCHANGED <<finished, outcome, report, idx, cli>>
               ELSE Raise(stage, IF compress THEN "codec error" ELSE "copy error", r.fs)
  /\ UNCHANGED <<batch, probes, caller, inputPath, outputPath, operations, originalSize, currentPath,
                 tempFiles, fsBefore, fsStart, inputDir, outputDir, images, summary>>

\* ImageProcessor.cleanupTempFiles
RECURSIVE cleanupTempFiles(_, _)
cleanupTempFiles(f, files) ==
  IF files = <<>> THEN f
  ELSE cleanupTempFiles(IF existsSync(f, Head(files)) THEN Unlink(f, Head(files)) ELSE f,
                        Tail(files))

\* line 119
PsfCleanup ==
  /\ pc = "psf_cleanup"
  /\ fs' = cleanupTempFiles(fs, tempFiles)
  /\ pc' = "psf_finish"
  /\ UNCHANGED <<batch, probes, caller, psfVars, calls, finished, outcome, dirVars, cli>>

\* the value processSingleFile returns (lines 130-139)
Outcome(out, finalSize, origSize) ==
  [success |-> TRUE, output |-> out, finalSize |-> finalSize,
   reduction |-> IF origSize > 0 THEN toFixed1(origSize, finalSize) ELSE 0]

\* line 186: Logger.success(`... ${basename(outputPath)}`), the error it throws, "" when none
LogItemSuccess == IF "basename" \in ImageProcessorImports THEN "" ELSE "basename is not defined"

\* the entries processDirectory pushes for an item whose pipeline returned (lines 177-194)
ItemEntries(result) ==
  IF LogItemSuccess = "" THEN <<SuccessEntry(result)>>
  ELSE <<SuccessEntry(result), FailureEntry(LogItemSuccess)>>

\* lines 121-139, and the caller's continuation
PsfFinish ==
  /\ pc = "psf_finish"
  /\ LET statsError == IF existsSync(fs, outputPath)
                         THEN LoggerStats(toLowerCase(outputPath.ext))
                         ELSE "ENOENT"
         result == Outcome(outputPath, fs[outputPath].size, originalSize)
     IN IF statsError # ""
          THEN Raise("stats", statsError, fs)
          ELSE /\ finished' = Append(finished, Finished("returned", "", "", fs))
               /\ IF caller = "dir"
                    THEN /\ report' = report \o ItemEntries(result)
                         /\ idx' = idx + 1
                         /\ pc' = "pd_loop"
                         /\ UNCHANGED <<outcome, cli>>
                  ELSE IF caller = "opt"
                    THEN /\ idx' = idx + 1
                         /\ pc' = "opt_loop"
                         /\ UNCHANGED <<outcome, report, cli>>
                    ELSE /\ pc' = "done"
                         /\ outcome' = [status |-> "returned", result |-> result]
                         /\ UNCHANGED <<report, idx, cli>>
  /\ UNCHANGED <<batch, probes, fs, caller, psfVars, calls, inputDir, outputDir, images, summary, fsStart>>

----------------------------------------------------------------------------
(* ImageProcessor.processDirectory *)

\* ImageProcessor.getOperationType
getOperationType(ops) ==
  IF Has(ops, "convert") THEN "convert"
  ELSE IF Has(ops, "resize") THEN "resize"
  ELSE IF Has(ops, "compress") THEN "compress"
  ELSE "optimize"

\* NoImages, had the check of an empty enumeration been left out
NoImagesNever(imgs) == FALSE

\* line 150
NoImages(imgs) == Len(imgs) = 0

\* lines 146-155: enumeration, and the error when nothing is eligible
PdStart ==
  /\ pc = "pd_start"
  /\ LET got == getImagesFromDirectory(fs, inputDir)
     IN IF ~got.ok
          THEN /\ pc' = "done"
               /\ outcome' = [status |-> "threw", error |-> got.error]
               /\ UNCHANGED images
        ELSE IF NoImages(got.images)
          THEN /\ pc' = "done"
               /\ outcome' = [status |-> "threw", error |-> "No se encontraron imagenes validas"]
               /\ images' = got.images
          ELSE /\ pc' = "pd_mkdir"
               /\ images' = got.images
               /\ UNCHANGED outcome
  /\ UNCHANGED <<batch, probes, fs, caller, psfVars, calls, finished, inputDir, outputDir, idx, report,
                 summary, cli, fsStart>>

\* lines 157-161
PdEnsureDir ==
  /\ pc = "pd_mkdir"
  /\ fs' = ensureDirectoryExists(fs, outputDir)
  /\ report' = <<>>
  /\ idx' = 1
  /\ pc' = "pd_loop"
  /\ UNCHANGED <<batch, probes, caller, psfVars, calls, finished, outcome, inputDir, outputDir, images,
                 summary, cli, fsStart>>

\* lines 164-177: the output path of the item, then its pipeline
PdItem ==
  /\ pc = "pd_loop"
  /\ idx <= Len(images)
  /\ LET image == images[idx]
         gen == generateOutputPath(fs, image.path, outputDir, getOperationType(operations),
                                   OptionsOf(operations))
     IN IF gen.ok
          THEN /\ fs' = gen.fs
               /\ inputPath' = image.path
               /\ outputPath' = gen.path
               /\ fsBefore' = gen.fs
               /\ pc' = "psf_start"
               /\ UNCHANGED <<report, idx>>
          ELSE /\ report' = Append(report, FailureEntry(gen.error))
               /\ idx' = idx + 1
               /\ UNCHANGED <<fs, inputPath, outputPath, fsBefore, pc>>
  /\ UNCHANGED <<batch, probes, caller, operations, originalSize, currentPath, tempFiles, calls, finished,
                 outcome, inputDir, outputDir, images, summary, cli, fsStart>>

RECURSIVE SumOriginal(_)
SumOriginal(results) ==
  IF results = <<>> THEN 0
  ELSE LET r == Head(results)
       IN (IF r.success /\ "result" \in DOMAIN r THEN Or(Field(r.result, "originalSize"), 0) ELSE 0)
          + SumOriginal(Tail(results))

RECURSIVE SumOptimized(_)
SumOptimized(results) ==
  IF results = <<>> THEN 0
  ELSE LET r == Head(results)
       IN (IF r.success /\ "result" \in DOMAIN r
             THEN Or(Field(r.result, "finalSize"), Or(Field(r.result, "optimizedSize"), 0))
             ELSE 0)
          + SumOptimized(Tail(results))

\* ImageProcessor.showDirectorySummary: the figures it prints
showDirectorySummary(results) ==
  LET total == Len(results)
      success == Len(SelectSeq(results, LAMBDA r : r.success))
  IN [total |-> total, success |-> success, failed |-> total - success,
      totalOriginalSize |-> SumOriginal(results),
      totalOptimizedSize |-> SumOptimized(results)]

\* lines 197-200
PdSummary ==
  /\ pc = "pd_loop"
  /\ idx > Len(images)
  /\ summary' = showDirectorySummary(report)
  /\ outcome' = [status |-> "returned", result |-> report]
  /\ pc' = "done"
  /\ UNCHANGED <<batch, probes, fs, caller, psfVars, calls, finished, inputDir, outputDir, images, idx,
                 report, cli, fsStart>>

----------------------------------------------------------------------------
(* ImageProcessor.process *)

InDir == Path("", "in", "")

OutDir == Path("", "out", "")

OutFile == Path("", "o", "webp")

Inputs == {InDir} \cup {Listing[k] : k \in 1..MaxEntries}

Outputs == {OutDir, OutFile}

\* lines 29-43: the body of process
ProcessCall(inp, out, ops) ==
  /\ operations' = ops
  /\ fsStart' = fs
  /\ IF isDirectory(fs, inp)
       THEN /\ caller' = "dir"
            /\ inputDir' = inp
            /\ outputDir' = out
            /\ pc' = "pd_start"
            /\ UNCHANGED <<inputPath, outputPath, fsBefore>>
       ELSE /\ caller' = "top"
            /\ inputPath' = inp
            /\ outputPath' = out
            /\ fsBefore' = fs
            /\ pc' = "psf_start"
            /\ UNCHANGED <<inputDir, outputDir>>
  /\ UNCHANGED <<probes, fs, originalSize, currentPath, tempFiles, calls, finished, outcome,
                 images, idx, report, summary, cli>>

\* ImageProcessor.process, called on its own
Process(inp, out, ops) ==
  /\ pc = "idle"
  /\ ProcessCall(inp, out, ops)
  /\ UNCHANGED batch

----------------------------------------------------------------------------
(* Initial filesystems *)

\* what an entry of the input directory can be when the program starts
EntryChoices(p) ==
  CASE p = Listing[1] -> {NoEntry, File(3, "a.jpg"), File(0, ""), File(MAX_FILE_SIZE + 1, "big")}
    [] p = Listing[2] -> {NoEntry, File(5, "a.png")}
    [] p = Listing[3] -> {NoEntry, File(3, "n.txt")}
    [] p = Listing[4] -> {NoEntry, Dir}
    [] OTHER -> {NoEntry, File(7, "b.webp")}

Candidates == {Listing[k] : k \in 1..MaxEntries} \cup {OutDir}

Layouts ==
  {l \in [Candidates -> {NoEntry, Dir} \cup UNION {EntryChoices(p) : p \in Candidates}
                        \cup {File(9, "old")}] :
     /\ \A k \in 1..MaxEntries : l[Listing[k]] \in EntryChoices(Listing[k])
     /\ l[OutDir] \in {NoEntry, Dir, File(9, "old")}}

\* the filesystem of a layout: the input directory and the entries that exist
FsOf(l) ==
  LET present == {p \in Candidates : l[p].kind # "absent"}
  IN [p \in present \cup {InDir} |-> IF p = InDir THEN Dir ELSE l[p]]

InitCommon ==
  /\ pc = "idle"
  /\ caller = "top"
  /\ inputPath = NoPath
  /\ outputPath = NoPath
  /\ operations = <<>>
  /\ originalSize = 0
  /\ currentPath = NoPath
  /\ tempFiles = <<>>
  /\ fsBefore = fs
  /\ fsStart = fs
  /\ calls = <<>>
  /\ finished = <<>>
  /\ outcome = [status |-> "none"]
  /\ inputDir = NoPath
  /\ outputDir = NoPath
  /\ images = <<>>
  /\ idx = 0
  /\ report = <<>>
  /\ summary = [total |-> 0, success |-> 0, failed |-> 0, totalOriginalSize |-> 0,
                totalOptimizedSize |-> 0]
  /\ cli = [cmd |-> "", exit |-> 0]
  /\ probes = <<>>
  /\ batch = [images |-> <<>>, i |-> 1, results |-> <<>>, started |-> <<>>]

Init ==
  /\ fs \in {FsOf(l) : l \in Layouts}
  /\ InitCommon

ProcessorOps == AllOps({"webp"}, {<<800, 600>>}, {80})

Next ==
  \/ \E inp \in Inputs, out \in Outputs, ops \in ProcessorOps : Process(inp, out, ops)
  \/ PsfStart
  \/ PsfConvert
  \/ PsfResize
  \/ PsfFinal
  \/ PsfCleanup
  \/ PsfFinish
  \/ PdStart
  \/ PdEnsureDir
  \/ PdItem
  \/ PdSummary

Spec == Init /\ [][Next]_vars

----------------------------------------------------------------------------
(* OptimizerFactory *)

\* OptimizerFactory.createOptimizer: the configuration of a preset, in key order
PresetConfig(type) ==
  CASE type = "web" -> <<Stage("convert", "webp", 0, 0, 80), Stage("compress", "webp", 0, 0, 80)>>
    [] type = "avif" -> <<Stage("convert", "avif", 0, 0, 70)>>
    [] type = "mobile" -> <<Stage("resize", "", 800, 800, 0), Stage("convert", "webp", 0, 0, 75)>>
    [] type = "thumbnail" -> <<Stage("resize", "", 300, 300, 0), Stage("convert", "webp", 0, 0, 70)>>
    [] type = "social" -> <<Stage("resize", "", 1200, 630, 0), Stage("convert", "jpg", 0, 0, 85)>>
    [] OTHER -> <<>>

\* { ...config, ...customConfig }: a key of config keeps its place and takes the custom value
Merge(config, custom) ==
  [k \in 1..Len(config) |-> IF Has(custom, config[k].stage) THEN Get(custom, config[k].stage)
                            ELSE config[k]]
  \o SelectSeq(custom, LAMBDA st : ~Has(config, st.stage))

----------------------------------------------------------------------------
(* index.js: the command handlers *)

Argv(inp, out, w, h, q, fmt) ==
  [input |-> inp, output |-> out, width |-> w, height |-> h, quality |-> q, format |-> fmt]

CliCall(s, src, target, argv) ==
  [stage |-> s, src |-> src, target |-> target,
   width |-> IF s = "resize" THEN argv.width ELSE 0,
   height |-> IF s = "resize" THEN argv.height ELSE 0,
   quality |-> IF s = "resize" THEN 0 ELSE argv.quality,
   by |-> "cli", out |-> target, n |-> 0]

\* handleFileOperation: the check a command makes of its numeric parameters, "" when it passes
ParameterError(operation, argv) ==
  CASE operation = "resize" ->
         IF validateDimensions(argv.width, argv.height).isValid THEN ""
         ELSE validateDimensions(argv.width, argv.height).error
    [] operation = "compress" ->
         IF validateQuality(Whole(argv.quality)).isValid THEN ""
         ELSE validateQuality(Whole(argv.quality)).error
    [] OTHER -> ""

\* handleOperation on a file: handleFileOperation (lines 30-79)
CliFile(operation, argv) ==
  /\ pc = "idle"
  /\ ~isDirectory(fs, argv.input)
  /\ fsStart' = fs
  /\ pc' = "done"
  /\ LET validation == validate(fs, argv.input)
         rejected == IF ~validation.isValid THEN validation.error
                     ELSE ParameterError(operation, argv)
     IN IF rejected # ""
          THEN /\ cli' = [cmd |-> operation, exit |-> 1]
               /\ outcome' = [status |-> "threw", error |-> rejected]
               /\ UNCHANGED <<fs, calls>>
          ELSE \E r \in CodecResults(fs, argv.input, argv.output, operation) :
                 LET statsError == IF ~r.ok THEN "codec error"
                                   ELSE LoggerStats(toLowerCase(argv.output.ext))
                 IN /\ fs' = r.fs
                    /\ calls' = Append(calls, CliCall(operation, argv.input, argv.output, argv))
                    /\ cli' = [cmd |-> operation, exit |-> IF statsError = "" THEN 0 ELSE 1]
                    /\ outcome' = IF statsError = "" THEN [status |-> "returned"]
                                  ELSE [status |-> "threw", error |-> statsError]
  /\ UNCHANGED <<batch, probes, caller, psfVars, finished, inputDir, outputDir, images, idx, report, summary>>

\* handleOperation on a directory: handleDirectoryOperation up to its loop (lines 81-93)
CliDirStart(operation, argv) ==
  /\ pc = "idle"
  /\ isDirectory(fs, argv.input)
  /\ fsStart' = fs
  /\ inputDir' = argv.input
  /\ outputDir' = argv.output
  /\ operations' = <<Stage(operation, argv.format, argv.width, argv.height, argv.quality)>>
  /\ LET got == getImagesFromDirectory(fs, argv.input)
     IN /\ images' = got.images
        /\ idx' = 1
        /\ IF ~got.ok \/ Len(got.images) = 0
             THEN /\ pc' = "done"
                  /\ cli' = [cmd |-> operation, exit |-> 1]
                  /\ outcome' = [status |-> "threw", error |-> "No se encontraron imagenes"]
                  /\ UNCHANGED fs
             ELSE /\ pc' = "cli_loop"
                  /\ cli' = [cmd |-> operation, exit |-> 0]
                  /\ fs' = ensureDirectoryExists(fs, argv.output)
                  /\ UNCHANGED outcome
  /\ UNCHANGED <<batch, probes, caller, inputPath, outputPath, originalSize, currentPath, tempFiles, fsBefore,
                 calls, finished, report, summary>>

\* one turn of the loop of handleDirectoryOperation (lines 95-120)
CliDirItem ==
  /\ pc = "cli_loop"
  /\ idx <= Len(images)
  /\ LET image == images[idx]
         st == operations[1]
         argv == Argv(inputDir, outputDir, st.width, st.height, st.quality, st.format)
         gen == generateOutputPath(fs, image.path, outputDir, cli.cmd,
                                   Options(st.width, st.height, st.format))
     IN IF gen.ok
          THEN \E r \in CodecResults(gen.fs, image.path, gen.path, cli.cmd) :
                 /\ fs' = r.fs
                 /\ calls' = Append(calls, CliCall(cli.cmd, image.path, gen.path, argv))
          ELSE UNCHANGED <<fs, calls>>
  /\ idx' = idx + 1
  /\ UNCHANGED <<batch, probes, pc, caller, psfVars, fsStart, finished, outcome, inputDir, outputDir, images,
                 report, summary, cli>>

\* line 122
CliDirDone ==
  /\ pc = "cli_loop"
  /\ idx > Len(images)
  /\ pc' = "done"
  /\ outcome' = [status |-> "returned"]
  /\ UNCHANGED <<batch, probes, fs, caller, psfVars, fsStart, calls, finished, inputDir, outputDir, images,
                 idx, report, summary, cli>>

\* the operations the optimize command adds to its preset (lines 309-317)
CustomOperations(argv) ==
  IF Or(argv.width, 0) # 0 \/ Or(argv.height, 0) # 0
    THEN <<Stage("resize", "", Or(argv.width, Undefined), Or(argv.height, Undefined), 0)>>
    ELSE <<>>

\* the optimize command (lines 305-342), up to its first pipeline
CliOptimize(preset, argv) ==
  /\ pc = "idle"
  /\ fsStart' = fs
  /\ operations' = Merge(PresetConfig(preset), CustomOperations(argv))
  /\ inputDir' = argv.input
  /\ outputDir' = argv.output
  /\ IF isDirectory(fs, argv.input)
       THEN LET got == getImagesFromDirectory(fs, argv.input)
            IN /\ images' = got.images
               /\ idx' = 1
               /\ caller' = "opt"
               /\ pc' = "opt_loop"
               /\ cli' = [cmd |-> "optimize", exit |-> 0]
               /\ UNCHANGED <<inputPath, outputPath, fsBefore>>
       ELSE /\ caller' = "optfile"
            /\ inputPath' = argv.input
            /\ outputPath' = argv.output
            /\ fsBefore' = fs
            /\ pc' = "psf_start"
            /\ cli' = [cmd |-> "optimize", exit |-> 0]
            /\ UNCHANGED <<images, idx>>
  /\ UNCHANGED <<batch, probes, fs, originalSize, currentPath, tempFiles, calls, finished, outcome, report,
                 summary>>

\* one turn of the loop of the optimize command (lines 325-334)
CliOptimizeItem ==
  /\ pc = "opt_loop"
  /\ idx <= Len(images)
  /\ LET image == images[idx]
         gen == generateOutputPath(fs, image.path, outputDir, "optimize",
                                   Options(Undefined, Undefined, "webp"))
     IN IF gen.ok
          THEN /\ fs' = gen.fs
               /\ inputPath' = image.path
               /\ outputPath' = gen.path
               /\ fsBefore' = gen.fs
               /\ pc' = "psf_start"
               /\ UNCHANGED <<outcome, cli>>
          ELSE /\ pc' = "done"
               /\ outcome' = [status |-> "threw", error |-> gen.error]
               /\ cli' = [cli EXCEPT !.exit = 1]
               /\ UNCHANGED <<fs, inputPath, outputPath, fsBefore>>
  /\ UNCHANGED <<batch, probes, caller, operations, originalSize, currentPath, tempFiles, fsStart, calls,
                 finished, inputDir, outputDir, images, idx, report, summary>>

CliOptimizeDone ==
  /\ pc = "opt_loop"
  /\ idx > Len(images)
  /\ pc' = "done"
  /\ outcome' = [status |-> "returned"]
  /\ UNCHANGED <<batch, probes, fs, caller, psfVars, fsStart, calls, finished, inputDir, outputDir, images,
                 idx, report, summary, cli>>

\* the values the commands are given
CliWidths == {0, 800, 10001}

CliQualities == {80, 101}

Presets == {"web", "avif", "mobile", "thumbnail", "social"}

CliArgvs(operation) ==
  {Argv(inp, out, w, 600, q, "webp") :
     inp \in Inputs, out \in Outputs,
     w \in IF operation = "resize" THEN CliWidths ELSE {Undefined},
     q \in IF operation = "resize" THEN {Undefined} ELSE CliQualities}

OptimizeArgvs ==
  {Argv(inp, out, w, Undefined, Undefined, "") :
     inp \in Inputs, out \in Outputs, w \in {Undefined, 800, 10001}}

NextCli ==
  \/ \E operation \in StageNames : \E argv \in CliArgvs(operation) : CliFile(operation, argv)
  \/ \E operation \in StageNames : \E argv \in CliArgvs(operation) : CliDirStart(operation, argv)
  \/ CliDirItem
  \/ CliDirDone
  \/ \E preset \in Presets, argv \in OptimizeArgvs : CliOptimize(preset, argv)
  \/ CliOptimizeItem
  \/ CliOptimizeDone
  \/ PsfStart
  \/ PsfConvert
  \/ PsfResize
  \/ PsfFinal
  \/ PsfCleanup
  \/ PsfFinish

SpecCli == Init /\ [][NextCli]_vars

----------------------------------------------------------------------------
(* FileManager.generateOutputPath, called on its own *)

\* number of consecutive calls of generateOutputPath with the same arguments
MaxResolves == 2

\* an input whose extension is in upper case, and one without extension
UpperInput == Path("/in", "A", "JPG")

BareInput == Path("/in", "noext", "")

\* an output path with an extension that is not an image's
OutOther == Path("", "o", "txt")

ResolveInputs == {InDir, Listing[1], UpperInput, BareInput}

ResolveOutputs == {OutDir, OutFile, OutOther}

ResolveOperations == {"convert", "resize", "compress", "optimize", "rotate"}

ResolveOptions ==
  {Options(d[1], d[2], fmt) : d \in {<<800, 600>>, <<Undefined, Undefined>>}, fmt \in {"", "webp"}}

\* the filesystem in which outputPath and OutFile are what d and o say
ResolveFs(d, o) ==
  LET base == [p \in {InDir, Listing[1]} |-> IF p = InDir THEN Dir ELSE File(3, "a.jpg")]
      withDir == IF d.kind = "absent" THEN base ELSE WriteFile(base, OutDir, d)
  IN IF o.kind = "absent" THEN withDir ELSE WriteFile(withDir, OutFile, o)

InitResolve ==
  /\ fs \in {ResolveFs(d, o) : d \in {NoEntry, Dir, File(9, "old")}, o \in {NoEntry, File(9, "old")}}
  /\ InitCommon

\* a call of generateOutputPath, as logged
Resolved(inp, out, operation, options, gen) ==
  [input |-> inp, output |-> out, operation |-> operation, options |-> options,
   ok |-> gen.ok, error |-> gen.error, path |-> gen.path, fsBefore |-> fs, fsAfter |-> gen.fs]

Resolve(inp, out, operation, options) ==
  /\ pc = "idle"
  /\ probes = <<>>
  /\ LET gen == generateOutputPath(fs, inp, out, operation, options)
     IN /\ fs' = gen.fs
        /\ probes' = <<Resolved(inp, out, operation, options, gen)>>
  /\ UNCHANGED <<batch, pc, caller, psfVars, calls, finished, outcome, dirVars, cli>>

\* the same call once more
ResolveAgain ==
  /\ pc = "idle"
  /\ probes # <<>>
  /\ Len(probes) < MaxResolves
  /\ LET last == probes[Len(probes)]
         gen == generateOutputPath(fs, last.input, last.output, last.operation, last.options)
     IN /\ fs' = gen.fs
        /\ probes' = Append(probes, Resolved(last.input, last.output, last.operation,
                                             last.options, gen))
  /\ UNCHANGED <<batch, pc, caller, psfVars, calls, finished, outcome, dirVars, cli>>

NextResolve ==
  \/ \E inp \in ResolveInputs, out \in ResolveOutputs, operation \in ResolveOperations,
        options \in ResolveOptions : Resolve(inp, out, operation, options)
  \/ ResolveAgain

SpecResolve == InitResolve /\ [][NextResolve]_vars

----------------------------------------------------------------------------
(* ImageValidator, called on its own *)

ValidateExts ==
  {"jpg", "jpeg", "png", "webp", "avif", "tiff", "gif", "svg", "bmp", "JPG", "PNG", "txt", ""}

ValidatePaths == {Path("/in", "v", e) : e \in ValidateExts}

\* a directory with the name of an image
ImageNamedDir == Path("/in", "d", "png")

ValidateSizes == {0, 1, MAX_FILE_SIZE, MAX_FILE_SIZE + 1}

\* widths and heights: whole numbers of pixels
DimensionValues == {-5, 0, 1, 2, 5000, 9999, 10000, 10001}

QualityValues == {Number(n, frac) : n \in {-1, 0, 1, 50, 99, 100, 101}, frac \in BOOLEAN}

\* the filesystem with the one entry e at p beside the input directory
OneEntryFs(p, e) == [q \in {InDir, p} |-> IF q = InDir THEN Dir ELSE e]

InitValidate ==
  /\ fs \in {OneEntryFs(p, File(sz, "v")) : p \in ValidatePaths, sz \in ValidateSizes}
            \cup {OneEntryFs(ImageNamedDir, Dir), [q \in {InDir} |-> Dir]}
  /\ InitCommon

Validate(filePath) ==
  /\ pc = "idle"
  /\ probes = <<>>
  /\ probes' = <<[fn |-> "validate", path |-> filePath, result |-> validate(fs, filePath),
                  fsBefore |-> fs]>>
  /\ UNCHANGED <<batch, fs, pc, caller, psfVars, calls, finished, outcome, dirVars, cli>>

ValidateDimensions(width, height) ==
  /\ pc = "idle"
  /\ probes = <<>>
  /\ probes' = <<[fn |-> "validateDimensions", width |-> width, height |-> height,
                  result |-> validateDimensions(width, height)]>>
  /\ UNCHANGED <<batch, fs, pc, caller, psfVars, calls, finished, outcome, dirVars, cli>>

ValidateQuality(quality) ==
  /\ pc = "idle"
  /\ probes = <<>>
  /\ probes' = <<[fn |-> "validateQuality", quality |-> quality,
                  result |-> validateQuality(quality)]>>
  /\ UNCHANGED <<batch, fs, pc, caller, psfVars, calls, finished, outcome, dirVars, cli>>

NextValidate ==
  \/ \E filePath \in ValidatePaths \cup {ImageNamedDir, InDir} : Validate(filePath)
  \/ \E width \in DimensionValues, height \in DimensionValues : ValidateDimensions(width, height)
  \/ \E quality \in QualityValues : ValidateQuality(quality)

SpecValidate == InitValidate /\ [][NextValidate]_vars

----------------------------------------------------------------------------
(* The reduction processSingleFile reports, computed on its own and in the pipeline *)

ReduceOriginals == {0, 1, 3, 7, 1000, 1258291, MAX_FILE_SIZE}

ReduceFinals == {0, 1, 2, 3, 999, 1000, 160000, 1258291}

\* lines 130-139, for an original and a final size
Reduce(origSize, finalSize) ==
  /\ pc = "idle"
  /\ probes = <<>>
  /\ probes' = <<[originalSize |-> origSize, finalSize |-> finalSize,
                  result |-> Outcome(OutFile, finalSize, origSize)]>>
  /\ pc' = "done"
  /\ UNCHANGED <<batch, fs, caller, psfVars, calls, finished, outcome, dirVars, cli>>

NextReduce ==
  \/ \E origSize \in ReduceOriginals, finalSize \in ReduceFinals : Reduce(origSize, finalSize)
  \/ \E inp \in Inputs, out \in Outputs, ops \in ProcessorOps : Process(inp, out, ops)
  \/ PsfStart
  \/ PsfConvert
  \/ PsfResize
  \/ PsfFinal
  \/ PsfCleanup
  \/ PsfFinish
  \/ PdStart
  \/ PdEnsureDir
  \/ PdItem
  \/ PdSummary

SpecReduce == Init /\ [][NextReduce]_vars

----------------------------------------------------------------------------
(* FileManager.getImagesFromDirectory, called on its own *)

\* what an entry of the listing can be when the directory is enumerated
ListedChoices(p) ==
  CASE p = Listing[1] -> {NoEntry, File(3, "a.jpg"), File(0, ""), Link}
    [] p = Listing[2] -> {NoEntry, File(5, "a.png"), Dir}
    [] p = Listing[3] -> {NoEntry, File(3, "n.txt")}
    [] p = Listing[4] -> {NoEntry, Dir}
    [] p = Listing[5] -> {NoEntry, File(7, "b.webp")}
    [] OTHER -> {NoEntry, File(4, "c.jpg")}

ListedPaths == {Listing[k] : k \in 1..Len(Listing)}

\* the layouts of the input directory: a file inside sub needs sub to be a directory
ListedLayouts ==
  {l \in [ListedPaths -> {NoEntry, Dir, Link} \cup UNION {ListedChoices(p) : p \in ListedPaths}] :
     /\ \A p \in ListedPaths : l[p] \in ListedChoices(p)
     /\ l[Listing[6]].kind # "absent" => l[Listing[4]].kind = "dir"}

ListedFs(l) ==
  LET present == {p \in ListedPaths : l[p].kind # "absent"}
  IN [p \in present \cup {InDir} |-> IF p = InDir THEN Dir ELSE l[p]]

InitListing ==
  /\ fs \in {ListedFs(l) : l \in ListedLayouts}
  /\ InitCommon

MissingDir == Path("", "missing", "")

ListImages(directoryPath) ==
  /\ pc = "idle"
  /\ probes = <<>>
  /\ probes' = <<[fn |-> "getImagesFromDirectory", directoryPath |-> directoryPath,
                  result |-> getImagesFromDirectory(fs, directoryPath), fsBefore |-> fs]>>
  /\ UNCHANGED <<batch, fs, pc, caller, psfVars, calls, finished, outcome, dirVars, cli>>

NextListing ==
  \E directoryPath \in {InDir, Listing[4], Listing[3], MissingDir} : ListImages(directoryPath)

SpecListing == InitListing /\ [][NextListing]_vars

----------------------------------------------------------------------------
(* ImageProcessor.batchProcess *)

\* largest number of entries of a batch
MaxBatch == 2

Config(inp, out, ops) == [input |-> inp, output |-> out, operations |-> ops]

\* the entries a batch can hold
BatchConfigs ==
  {Config(Listing[1], OutFile, <<>>),
   Config(Listing[2], OutFile, <<Stage("compress", "webp", 0, 0, 80)>>),
   Config(Listing[3], OutFile, <<>>),
   Config(InDir, OutDir, <<>>)}

Batches == UNION {[1..n -> BatchConfigs] : n \in 0..MaxBatch}

\* lines 280-284
BatchStart(configs) ==
  /\ pc = "idle"
  /\ batch' = [images |-> configs, i |-> 1, results |-> <<>>, started |-> <<>>]
  /\ pc' = "batch_loop"
  /\ UNCHANGED <<probes, fs, caller, psfVars, calls, finished, outcome, dirVars, cli>>

\* lines 286-291: the call of process for entry i
BatchItem ==
  /\ pc = "batch_loop"
  /\ batch.i <= Len(batch.images)
  /\ LET config == batch.images[batch.i]
     IN ProcessCall(config.input, config.output, config.operations)
  /\ batch' = [batch EXCEPT !.started = Append(@, batch.i)]

\* the result pushed for an entry (lines 292 and 295)
BatchResult(config, out) ==
  IF out.status = "returned"
    THEN [input |-> config.input, output |-> config.output, operations |-> config.operations,
          success |-> TRUE, result |-> out.result]
    ELSE [input |-> config.input, output |-> config.output, operations |-> config.operations,
          success |-> FALSE, error |-> out.error]

\* AfterEntry, had the catch of the loop ended the batch
AfterEntryStopsOnError(i, total, threw) == IF threw THEN total + 1 ELSE i + 1

\* the index the loop goes on with after entry i, whether or not process threw
AfterEntry(i, total, threw) == i + 1

\* lines 291-297: process has returned or thrown, the result is pushed
BatchCollect ==
  /\ pc = "done"
  /\ batch.i <= Len(batch.images)
  /\ batch' = [batch EXCEPT !.results = Append(@, BatchResult(batch.images[batch.i], outcome)),
                            !.i = AfterEntry(batch.i, Len(batch.images), outcome.status = "threw")]
  /\ pc' = "batch_loop"
  /\ UNCHANGED <<probes, fs, caller, psfVars, calls, finished, outcome, dirVars, cli>>

\* line 300
BatchDone ==
  /\ pc = "batch_loop"
  /\ batch.i > Len(batch.images)
  /\ pc' = "done"
  /\ outcome' = [status |-> "returned", result |-> batch.results]
  /\ UNCHANGED <<batch, probes, fs, caller, psfVars, calls, finished, dirVars, cli>>

NextBatch ==
  \/ \E configs \in Batches : BatchStart(configs)
  \/ BatchItem
  \/ BatchCollect
  \/ BatchDone
  \/ PsfStart
  \/ PsfConvert
  \/ PsfResize
  \/ PsfFinal
  \/ PsfCleanup
  \/ PsfFinish
  \/ PdStart
  \/ PdEnsureDir
  \/ PdItem
  \/ PdSummary

SpecBatch == Init /\ [][NextBatch]_vars

----------------------------------------------------------------------------
(* The claims *)

\* p is a temporary path of the pipeline that writes out: out + ".temp." + tag
IsTempOf(p, out) == p.dir = out.dir /\ p.name = out.name \o extname(out) \o ".temp"

Runs == 1..Len(finished)

CallsOf(n) == {j \in 1..Len(calls) : calls[j].n = n /\ calls[j].by # "cli"}

\* processDirectory has ended
DirDone == pc = "done" /\ caller = "dir"

\* the sum of the values a function takes over a set of its arguments
RECURSIVE SumOver(_, _)
SumOver(S, val) ==
  IF S = {} THEN 0 ELSE LET x == CHOOSE y \in S : TRUE IN val[x] + SumOver(S \ {x}, val)

\* C1: once a run of processSingleFile has returned or thrown, no path of the form
\* outputPath + ".temp." + tag exists on disk.
C1_NoTempFileRemains ==
  \A k \in Runs : \A p \in DOMAIN finished[k].fsAfter : ~IsTempOf(p, finished[k].output)

\* C2: the report processDirectory returns has one entry per eligible image, in
\* enumeration order, as many successes as pipelines that completed and as many
\* failures as pipelines that failed.
C2_ReportOneEntryPerImage ==
  (DirDone /\ outcome.status = "returned") =>
    /\ Len(report) = Len(images)
    /\ \A k \in 1..Len(report) : report[k].input = images[k].path
    /\ Cardinality({k \in 1..Len(report) : report[k].success})
         = Cardinality({k \in Runs : finished[k].status = "returned"})
    /\ Cardinality({k \in 1..Len(report) : ~report[k].success})
         = Cardinality({k \in Runs : finished[k].status = "threw"})

\* C3: a failing item never stops the batch: once processDirectory has ended over a
\* directory with eligible images it has returned its report, the pipeline was run for
\* every image in enumeration order, and every failure is in the report with its message.
C3_BatchContinuesAfterFailure ==
  (DirDone /\ Len(images) > 0) =>
    /\ outcome.status = "returned"
    /\ outcome.result = report
    /\ Len(finished) = Len(images)
    /\ \A k \in Runs : finished[k].input = images[k].path
    /\ \A k \in Runs : finished[k].status = "threw" =>
         \E j \in 1..Len(report) :
           /\ report[j].input = finished[k].input
           /\ ~report[j].success
           /\ report[j].error = finished[k].error

C3_Witness ==
  /\ DirDone
  /\ Len(finished) >= 2
  /\ finished[1].status = "threw"
  /\ finished[1].stage \in StageNames
  /\ finished[2].status = "returned"

\* C4 as stated: when a run fails at a stage (convert, resize, compress or the final
\* copy), outputPath is as it was before the run.
C4_OutputUntouchedOnStageError ==
  \A k \in Runs :
    (finished[k].status = "threw" /\ finished[k].stage \in {"convert", "resize", "compress", "copy"})
      => Lookup(finished[k].fsAfter, finished[k].output) = Lookup(finished[k].fsBefore, finished[k].output)

\* C4 as amended: when a run fails at the convert or the resize stage, outputPath is as
\* it was before the run: neither created nor modified.
C4_OutputUntouchedOnTempStageError ==
  \A k \in Runs :
    (finished[k].status = "threw" /\ finished[k].stage \in {"convert", "resize"})
      => Lookup(finished[k].fsAfter, finished[k].output) = Lookup(finished[k].fsBefore, finished[k].output)

C4_Witness ==
  \E k \in Runs :
    /\ finished[k].status = "threw"
    /\ finished[k].stage = "resize"
    /\ Lookup(finished[k].fsBefore, finished[k].output).kind = "file"
    /\ \E p \in DOMAIN finished[k].fsAfter : IsTempOf(p, finished[k].output)

\* the last stage an operations object applies
LastApplied(ops) ==
  IF Has(ops, "compress") THEN "compress"
  ELSE IF Has(ops, "resize") THEN "resize"
  ELSE "convert"

\* C5 as stated: the last applied stage writes to outputPath, every other stage writes to
\* a temporary file; with only a convert stage nothing but outputPath is written.
C5_LastStageWritesOutput ==
  \A j \in 1..Len(calls) :
    calls[j].stage \in StageNames =>
      IF calls[j].stage = LastApplied(operations)
        THEN calls[j].target = calls[j].out
        ELSE IsTempOf(calls[j].target, calls[j].out)

\* C5 as amended: convert and resize always write to a temporary file of outputPath,
\* whether or not a stage follows; only compress, or the copy made when compress is
\* absent, writes to outputPath, once per run; a run that returns has written outputPath
\* exactly once, and with only a convert stage it has written one temporary file.
C5_OnlyFinalStepWritesOutput ==
  /\ \A j \in 1..Len(calls) :
       IF calls[j].stage \in {"convert", "resize"}
         THEN IsTempOf(calls[j].target, calls[j].out) /\ calls[j].target # calls[j].out
         ELSE calls[j].target = calls[j].out
  /\ \A i, j \in 1..Len(calls) :
       (calls[i].n = calls[j].n /\ calls[i].target = calls[i].out /\ calls[j].target = calls[j].out)
         => i = j
  /\ \A k \in Runs : finished[k].status = "returned" =>
       /\ \E j \in CallsOf(k) : calls[j].target = finished[k].output
       /\ (\A s \in StageNames : Has(finished[k].operations, s) <=> s = "convert")
            => Cardinality({j \in CallsOf(k) : IsTempOf(calls[j].target, finished[k].output)}) = 1

C5_Witness ==
  \E k \in Runs :
    /\ finished[k].status = "returned"
    /\ Len(finished[k].operations) = 1
    /\ finished[k].operations[1].stage = "convert"
    /\ \E j \in CallsOf(k) : calls[j].stage = "copy" /\ IsTempOf(calls[j].src, finished[k].output)

Rank(stage) ==
  CASE stage = "convert" -> 1
    [] stage = "resize" -> 2
    [] OTHER -> 3

\* C6: within a run the stages are called in the order convert, resize, compress whatever
\* the key order of the operations object; a stage the object lacks is never called, and
\* a run that returns has called every stage the object has.
C6_FixedStageOrder ==
  /\ \A i, j \in 1..Len(calls) :
       (i < j /\ calls[i].n = calls[j].n) => Rank(calls[i].stage) < Rank(calls[j].stage)
  /\ \A j \in 1..Len(calls) : calls[j].stage \in StageNames => Has(operations, calls[j].stage)
  /\ \A k \in Runs : finished[k].status = "returned" =>
       \A s \in StageNames : Has(finished[k].operations, s) =>
         \E j \in CallsOf(k) : calls[j].stage = s

C6_Witness ==
  /\ Len(operations) = 2
  /\ operations[1].stage = "resize"
  /\ operations[2].stage = "convert"
  /\ \E k \in Runs :
       /\ finished[k].status = "returned"
       /\ \E i, j \in CallsOf(k) : i < j /\ calls[i].stage = "convert" /\ calls[j].stage = "resize"

\* the input the validator must reject: missing, empty, above 100 MiB or of an
\* unsupported extension
Rejectable(f, p) ==
  \/ p \notin DOMAIN f
  \/ f[p].size = 0
  \/ f[p].size > 104857600
  \/ p.ext \notin {"jpg", "jpeg", "png", "webp", "avif", "tiff", "gif", "svg", "bmp"}

ValidationReasons ==
  {"Archivo no encontrado", "El archivo esta vacio", "Archivo demasiado grande",
   "Formato no soportado"}

\* C7: a run whose input the validator rejects throws the validator's reason before any
\* stage: it calls no convert, resize, compress or copy and leaves the filesystem as it was.
C7_RejectedBeforeAnyStage ==
  /\ \A k \in Runs : Rejectable(finished[k].fsBefore, finished[k].input) =>
       /\ finished[k].status = "threw"
       /\ finished[k].stage = "validate"
       /\ finished[k].error \in ValidationReasons
       /\ finished[k].fsAfter = finished[k].fsBefore
       /\ CallsOf(k) = {}
  /\ (pc \in {"psf_convert", "psf_resize", "psf_final", "psf_cleanup", "psf_finish"})
       => ~Rejectable(fsBefore, inputPath)

C7_Witness ==
  \E k \in Runs :
    /\ finished[k].stage = "validate"
    /\ finished[k].error = "Archivo demasiado grande"
    /\ Len(finished[k].operations) = 3

\* C8: no resize is called with a width or a height outside 1..10000 and no compress with
\* a quality outside 1..100, whatever the entry path.
C8_ParametersInRange ==
  \A j \in 1..Len(calls) :
    /\ calls[j].stage = "resize" =>
         (calls[j].width \in 1..10000 /\ calls[j].height \in 1..10000)
    /\ calls[j].stage = "compress" => calls[j].quality \in 1..100

\* C9: when processDirectory has attempted every item, the total of the original sizes is
\* the sum of the input sizes of the items that succeeded, and the total of the final
\* sizes the sum of their output sizes.
C9_TotalsOverSuccesses ==
  (DirDone /\ outcome.status = "returned") =>
    LET ok == {k \in Runs : finished[k].status = "returned"}
        orig == [k \in ok |-> finished[k].fsBefore[finished[k].input].size]
        final == [k \in ok |-> finished[k].fsAfter[finished[k].output].size]
    IN /\ summary.totalOriginalSize = SumOver(ok, orig)
       /\ summary.totalOptimizedSize = SumOver(ok, final)

\* no regular file directly inside d passes the validator
NoEligible(f, d) ==
  \A p \in DOMAIN f : (p.dir = PathStr(d) /\ f[p].kind = "file") => Rejectable(f, p)

\* C10: over a directory without any eligible image processDirectory throws the error
\* "no valid images found", runs no pipeline and leaves the filesystem as it was: the
\* output directory is not created.
C10_EmptyDirectoryFails ==
  (DirDone /\ NoEligible(fsStart, inputDir)) =>
    /\ outcome.status = "threw"
    /\ outcome.error = "No se encontraron imagenes validas"
    /\ calls = <<>>
    /\ finished = <<>>
    /\ fs = fsStart
    /\ (~existsSync(fsStart, outputDir) => ~existsSync(fs, outputDir))

C10_Witness ==
  /\ DirDone
  /\ outcome.status = "threw"
  /\ \E p \in DOMAIN fs : p.dir = PathStr(inputDir) /\ fs[p].kind = "file"
  /\ NoEligible(fsStart, inputDir)
  /\ ~existsSync(fs, outputDir)


\* the calls of generateOutputPath made on its own
Resolves == 1..Len(probes)

\* the extension of p is one of an image, whatever its case
HasImageExtension(p) == toLowerCase(extname(p)) \in SUPPORTED_FORMATS

\* C11: when outputPath does not exist, generateOutputPath takes it for a file if it
\* has the extension of a supported image, and then, for a file input, returns it
\* unchanged and creates nothing; it takes it for a directory otherwise, creates that
\* directory and returns the derived filename inside it.
C11_KindInferredFromExtension ==
  \A k \in Resolves :
    LET c == probes[k]
    IN ~existsSync(c.fsBefore, c.output) =>
         IF HasImageExtension(c.output)
           THEN ~isDirectory(c.fsBefore, c.input) =>
                  (c.ok /\ c.path = c.output /\ c.fsAfter = c.fsBefore)
           ELSE /\ c.ok
                /\ isDirectory(c.fsAfter, c.output)
                /\ c.path.dir = PathStr(c.output)

\* C12 as stated: for a file input and an outputPath that exists, generateOutputPath
\* returns outputPath unchanged, creating nothing, when it is a regular file, and when
\* it is a directory the path inside it named nameWithoutExt + suffix + "." + ext,
\* ext being the target format if one is given and the input's extension otherwise.
C12_DerivedNameKeepsExtension ==
  \A k \in Resolves :
    LET c == probes[k]
        suffix == getOperationSuffix(c.operation, c.options)
        ext == IF c.options.format # "" THEN c.options.format ELSE c.input.ext
    IN (~isDirectory(c.fsBefore, c.input) /\ existsSync(c.fsBefore, c.output)) =>
         /\ c.ok
         /\ IF isDirectory(c.fsBefore, c.output)
              THEN PathStr(c.path) = PathStr(c.output) \o "/" \o c.input.name \o suffix \o "." \o ext
              ELSE c.path = c.output /\ c.fsAfter = c.fsBefore

\* C12, amended: as above, except that an extension kept from the input is put in
\* lower case, and that no "." is added when the input has no extension.
C12_DerivedNameLowersExtension ==
  \A k \in Resolves :
    LET c == probes[k]
        suffix == getOperationSuffix(c.operation, c.options)
        ext == IF c.options.format # "" THEN c.options.format ELSE toLowerCase(c.input.ext)
    IN (~isDirectory(c.fsBefore, c.input) /\ existsSync(c.fsBefore, c.output)) =>
         /\ c.ok
         /\ IF isDirectory(c.fsBefore, c.output)
              THEN PathStr(c.path) = PathStr(c.output) \o "/" \o c.input.name \o suffix
                                     \o (IF ext = "" THEN "" ELSE "." \o ext)
              ELSE c.path = c.output /\ c.fsAfter = c.fsBefore

C12_Witness ==
  \E k \in Resolves :
    /\ probes[k].input = UpperInput
    /\ isDirectory(probes[k].fsBefore, probes[k].output)
    /\ probes[k].options.format = ""
    /\ probes[k].ok
    /\ probes[k].path.ext = "jpg"

\* the output path is a file's: a regular file, or a path that does not exist and has
\* the extension of a supported image
FileLike(f, p) ==
  IF existsSync(f, p) THEN f[p].kind = "file" ELSE HasImageExtension(p)

\* C13: for a directory input and a file-like outputPath, generateOutputPath fails with
\* the error that a directory input needs a directory output, and creates no directory.
C13_DirectoryNeedsDirectory ==
  \A k \in Resolves :
    LET c == probes[k]
    IN (isDirectory(c.fsBefore, c.input) /\ FileLike(c.fsBefore, c.output)) =>
         /\ ~c.ok
         /\ c.error = "Si la entrada es un directorio, la salida debe ser un directorio"
         /\ c.fsAfter = c.fsBefore

\* C16: two calls of generateOutputPath with the same arguments, the output directory
\* existing before the first, both return, return the same path, and the second leaves
\* the filesystem as it found it.
C16_ResolveIdempotent ==
  \A k \in Resolves :
    (k > 1 /\ isDirectory(probes[1].fsBefore, probes[1].output)) =>
      /\ probes[1].ok
      /\ probes[k].ok
      /\ probes[k].path = probes[1].path
      /\ probes[k].fsAfter = probes[k].fsBefore

C16_Witness ==
  /\ Len(probes) = 2
  /\ isDirectory(probes[1].fsBefore, probes[1].output)
  /\ probes[2].ok
  /\ probes[2].path.dir = PathStr(probes[1].output)
  /\ probes[2].fsAfter = probes[1].fsBefore


\* the runs of the pipeline processDirectory started on a path it derived inside its
\* output directory
DerivedRuns ==
  {k \in Runs : finished[k].by = "dir" /\ finished[k].output.dir = PathStr(outputDir)}

\* C14: the suffix of a derived filename follows the kind of the operation: "_converted"
\* for convert, "_" + width + "x" + height with the width and height of the resize
\* stage for resize, "_compressed" for compress and "_processed" for any other kind,
\* that of an empty operations object included; so for the paths of processDirectory.
C14_SuffixFollowsOperation ==
  \A k \in DerivedRuns :
    LET r == finished[k]
        kind == getOperationType(r.operations)
        suffix == CASE kind = "convert" -> "_converted"
                    [] kind = "resize" -> "_" \o NumStr(Get(r.operations, "resize").width) \o "x"
                                          \o NumStr(Get(r.operations, "resize").height)
                    [] kind = "compress" -> "_compressed"
                    [] OTHER -> "_processed"
    IN r.output.name = r.input.name \o suffix

\* C15: in processDirectory, when the operations carry a convert stage with format F
\* the output filename of every item has the extension F, and when no stage carries a
\* target format the item keeps its extension.
C15_ExtensionFollowsFormat ==
  \A k \in DerivedRuns :
    LET r == finished[k]
    IN IF Has(r.operations, "convert")
         THEN r.output.ext = Get(r.operations, "convert").format
         ELSE r.output.ext = r.input.ext


\* the absolute value of an integer
Abs(n) == IF n < 0 THEN -n ELSE n

\* r, in tenths of a percent, is the reduction from a bytes to b bytes rounded to one
\* decimal: 0 when a is 0, a nearest tenth otherwise (stated for sizes up to 1000,
\* whose products stay small), and 87.3 for 1258291 and 160000 bytes
RoundedReduction(r, a, b) ==
  IF a = 0 THEN r = 0
  ELSE IF a <= 1000 /\ b <= 1000 THEN 2 * Abs(r * a - 1000 * (a - b)) <= a
  ELSE (a = 1258291 /\ b = 160000) => r = 873

\* C17: the reduction processSingleFile reports is (originalSize - finalSize) /
\* originalSize * 100 rounded to one decimal, 0 when originalSize is 0 and 87.3 for
\* 1258291 and 160000 bytes; originalSize is the size of the input before any stage,
\* finalSize that of outputPath after the last write and the cleanup.
C17_ReductionRounded ==
  /\ \A k \in 1..Len(probes) :
       RoundedReduction(probes[k].result.reduction, probes[k].originalSize, probes[k].finalSize)
  /\ (pc = "done" /\ caller = "top" /\ outcome.status = "returned") =>
       LET r == finished[Len(finished)]
       IN /\ outcome.result.finalSize = r.fsAfter[r.output].size
          /\ RoundedReduction(outcome.result.reduction, r.fsBefore[r.input].size,
                              r.fsAfter[r.output].size)
  /\ \A j \in 1..Len(report) :
       (caller = "dir" /\ report[j].success) =>
         \E k \in Runs :
           LET r == finished[k]
           IN /\ r.input = report[j].input
              /\ r.status = "returned"
              /\ report[j].result.finalSize = r.fsAfter[r.output].size
              /\ RoundedReduction(report[j].result.reduction, r.fsBefore[r.input].size,
                                  r.fsAfter[r.output].size)

C17_Witness ==
  /\ probes # <<>>
  /\ probes[1].originalSize = 1258291
  /\ probes[1].finalSize = 160000
  /\ probes[1].result.reduction = 873

\* the calls of a function of the validator made on its own
ProbesOf(fn) == {k \in 1..Len(probes) : probes[k].fn = fn}

\* C18: for whole numbers width and height, validateDimensions succeeds exactly when
\* both are in 1..10000; when either is <= 0 or > 10000 it fails with a reason that is
\* not empty; it never reports success together with a reason.
C18_DimensionsInRange ==
  \A k \in ProbesOf("validateDimensions") :
    LET c == probes[k]
    IN /\ c.result.isValid <=> (c.width \in 1..10000 /\ c.height \in 1..10000)
       /\ (c.width <= 0 \/ c.height <= 0 \/ c.width > 10000 \/ c.height > 10000) =>
            (~c.result.isValid /\ c.result.error \notin {"", "null"})
       /\ c.result.isValid => c.result.error = "null"

C18_Witness ==
  \E k \in ProbesOf("validateDimensions") :
    probes[k].width = 10000 /\ probes[k].height = 1 /\ probes[k].result.isValid

\* C19: validateQuality succeeds exactly when the quality is a whole number in 1..100;
\* any other value, a value inside the range that is not whole included, is refused
\* with a reason.
C19_QualityWholeInRange ==
  \A k \in ProbesOf("validateQuality") :
    LET c == probes[k]
    IN /\ c.result.isValid <=> (~c.quality.frac /\ c.quality.floor \in 1..100)
       /\ ~c.result.isValid => c.result.error \notin {"", "null"}

\* the extensions of the paths examined that are, whatever their case, one of jpg,
\* jpeg, png, webp, avif, tiff, gif, svg, bmp
AcceptedExts ==
  {"jpg", "jpeg", "png", "webp", "avif", "tiff", "gif", "svg", "bmp", "JPG", "PNG"}

\* C20: validate succeeds exactly when the file exists, its size is above 0 and at
\* most 104857600 bytes, and its extension is, whatever its case, one of the nine
\* supported; when it fails it gives the reason of the first check to fail, in the
\* order existence, emptiness, largest size, extension; it changes nothing on disk.
C20_ValidateFirstFailingCheck ==
  \A k \in ProbesOf("validate") :
    LET c == probes[k]
        e == Lookup(c.fsBefore, c.path)
        reason == IF e.kind = "absent" THEN "Archivo no encontrado"
                  ELSE IF e.size = 0 THEN "El archivo esta vacio"
                  ELSE IF e.size > 104857600 THEN "Archivo demasiado grande"
                  ELSE IF c.path.ext \notin AcceptedExts THEN "Formato no soportado"
                  ELSE "null"
    IN /\ c.result.isValid <=> (/\ e.kind # "absent"
                                /\ e.size > 0
                                /\ e.size <= 104857600
                                /\ c.path.ext \in AcceptedExts)
       /\ c.result.error = reason
       /\ fs = c.fsBefore

C20_Witness ==
  \E k \in ProbesOf("validate") :
    /\ probes[k].path.ext = "JPG"
    /\ Lookup(probes[k].fsBefore, probes[k].path).size = 104857600
    /\ probes[k].result.isValid


\* the regular files directly inside directory d that the validator accepts
Eligible(f, d) ==
  {p \in DOMAIN f : p.dir = PathStr(d) /\ f[p].kind = "file" /\ ~Rejectable(f, p)}

\* the place of a path in the order in which readdir lists the entries
ListingPlace(p) == CHOOSE n \in 1..Len(Listing) : Listing[n] = p

\* C21: getImagesFromDirectory returns, in listing order, exactly the regular files
\* directly inside the directory that pass the validator: no entry of a subdirectory,
\* no other file, no subdirectory; an entry whose stat fails is skipped and the others
\* are still returned.
C21_ListsEligibleFilesInOrder ==
  \A k \in ProbesOf("getImagesFromDirectory") :
    LET c == probes[k]
        imgs == c.result.images
    IN isDirectory(c.fsBefore, c.directoryPath) =>
         /\ c.result.ok
         /\ {imgs[i].path : i \in 1..Len(imgs)} = Eligible(c.fsBefore, c.directoryPath)
         /\ \A i, j \in 1..Len(imgs) : i < j => ListingPlace(imgs[i].path) < ListingPlace(imgs[j].path)
         /\ \A i \in 1..Len(imgs) : imgs[i].size = c.fsBefore[imgs[i].path].size

C21_Witness ==
  \E k \in ProbesOf("getImagesFromDirectory") :
    LET c == probes[k]
    IN /\ c.directoryPath = InDir
       /\ Lookup(c.fsBefore, Listing[6]).kind = "file"
       /\ Listing[1] \in DOMAIN c.fsBefore /\ c.fsBefore[Listing[1]].kind = "link"
       /\ isDirectory(c.fsBefore, Listing[2])
       /\ Lookup(c.fsBefore, Listing[3]).kind = "file"
       /\ Len(c.result.images) = 1
       /\ c.result.images[1].path = Listing[5]


\* C22: with an empty operations object processSingleFile succeeds on a valid input
\* (the copy itself not failing): it returns, calls no codec stage, leaves no temporary
\* file, leaves at outputPath a copy of the input, of the same size, and leaves the
\* input as it was.
C22_EmptySpecIsByteCopy ==
  \A k \in Runs :
    LET r == finished[k]
    IN (/\ r.operations = <<>>
        /\ ~Rejectable(r.fsBefore, r.input)
        /\ ~(r.status = "threw" /\ r.stage = "copy")) =>
         /\ r.status = "returned"
         /\ \A j \in CallsOf(k) : calls[j].stage = "copy"
         /\ \A p \in DOMAIN r.fsAfter : ~IsTempOf(p, r.output)
         /\ Lookup(r.fsAfter, r.output).size = r.fsBefore[r.input].size
         /\ Lookup(r.fsAfter, r.output).data = r.fsBefore[r.input].data
         /\ Lookup(r.fsAfter, r.input) = r.fsBefore[r.input]

\* the input of pipeline run n, finished or under way
RunInput(n) == IF n <= Len(finished) THEN finished[n].input ELSE inputPath

C25_ReturnsWhenStagesSucceed ==
  \A k \in Runs :
    LET r == finished[k]
    IN (/\ ~Rejectable(r.fsBefore, r.input)
        /\ ~(r.status = "threw" /\ r.stage \in {"convert", "resize", "compress", "copy"})) =>
         r.status = "returned"


\* C26: in a directory operation two distinct images of the input directory are given
\* distinct output paths inside the output directory, also when a target format is
\* given and the images differ only in their extension: no item writes the output of
\* another.
C26_DistinctOutputsPerImage ==
  /\ \A i, j \in 1..Len(calls) :
       (/\ calls[i].by = "cli" /\ calls[j].by = "cli"
        /\ calls[i].src # calls[j].src
        /\ calls[i].target.dir = PathStr(outputDir)) => calls[i].target # calls[j].target
  /\ \A h, k \in Runs :
       (/\ finished[h].by \in {"dir", "opt"} /\ finished[k].by \in {"dir", "opt"}
        /\ finished[h].input # finished[k].input
        /\ finished[h].output.dir = PathStr(outputDir)) => finished[h].output # finished[k].output


\* batchProcess has ended
BatchEnded == pc = "done" /\ batch.i > Len(batch.images)

\* C23: batchProcess does not throw because of an entry: it returns one result per
\* entry, in the order of the list, each with the fields of its entry and either
\* success and the result or failure and the error message; process is called for
\* every entry, whatever became of the entries before it.
C23_BatchReportsEveryEntry ==
  /\ Len(batch.results) <= Len(batch.images)
  /\ \A k \in 1..Len(batch.results) :
       LET r == batch.results[k]
       IN /\ r.input = batch.images[k].input
          /\ r.output = batch.images[k].output
          /\ r.operations = batch.images[k].operations
          /\ IF r.success THEN DOMAIN r = {"input", "output", "operations", "success", "result"}
             ELSE DOMAIN r = {"input", "output", "operations", "success", "error"} /\ r.error # ""
  /\ (pc = "batch_loop" /\ batch.results # <<>>) =>
       batch.results[Len(batch.results)].success = (outcome.status = "returned")
  /\ BatchEnded =>
       /\ outcome.status = "returned"
       /\ outcome.result = batch.results
       /\ Len(batch.results) = Len(batch.images)
       /\ batch.started = [k \in 1..Len(batch.images) |-> k]

C23_Witness ==
  /\ BatchEnded
  /\ Len(batch.images) = 2
  /\ ~batch.results[1].success
  /\ batch.results[2].success

====
